---- MODULE Spec2Model ----
(***************************************************************************)
(* NeetiManthan: the comment-processing pipeline of                        *)
(* app/services/coordinator.py (CoordinatorAgent.process_comment) over the *)
(* tables of alembic/versions/001_initial_migration.py.                    *)
(*                                                                         *)
(* Each worker executes one process_comment call at a time.  A call owns a *)
(* SQLAlchemy session: its writes are pending in the session until         *)
(* db.commit() makes them visible to the others; db.rollback() and         *)
(* db.close() discard them.  Queries see the committed rows only (the      *)
(* session never queries a table it has pending rows for).                 *)
(*                                                                         *)
(* The rows a flushed UPDATE locks until the end of its transaction are    *)
(* not modelled: a call never waits for another one.  The model therefore  *)
(* allows every interleaving the database allows, and some more.           *)
(*                                                                         *)
(* Spec lets two deliveries of the task queue overlap; SeqSpec runs the    *)
(* calls one after the other and records in each call the result of the    *)
(* call before it.                                                         *)
(*                                                                         *)
(* LinkSpec is the clause linker of app/tools/clause_linker/main.py        *)
(* (ClauseLinker.link_comment_to_clauses), a function of the comment text  *)
(* and the clauses of the draft: it starts from any text and clause list   *)
(* of a small draft and steps through the cascade of the three tiers.      *)
(* Scores are counted in 1/Scale, strings are sequences of characters.     *)
(***************************************************************************)
EXTENDS Integers, Sequences, FiniteSets, TLC

\* ---------------------------------------------------------------- bounds
\* process_comment calls the task queue delivers in one behaviour, when two
\* deliveries may overlap and when each returns before the next begins
MaxRuns == 2
MaxSeqRuns == 3
\* clauses of the draft the linker is called for
MaxClauses == 6

\* ------------------------------------------------------------- constants
\* settings.confidence_threshold = 0.7; confidences are counted in tenths
confidence_threshold == 7

\* @celery_app.task(bind=True, max_retries=3)
max_retries == 3

\* similarity_score: float, counted in 1/2520 (1.0 = Scale), so that every
\* Jaccard quotient over at most ten words is a whole number
Scale == 2520
\* self.similarity_threshold = 0.3
similarity_threshold == 756
\* self.max_candidates = 5
max_candidates == 5
\* if jaccard_sim > 0.1
fuzzy_threshold == 252
\* max(c.similarity_score for c in all_candidates) < 0.5
weak_score == 1260

\* two deliveries of the task queue may run at the same time
Workers == {1, 2}
\* the CommentRaw rows created by intake, and an id intake never created
Comments == {"c1"}
UnknownIds == {"cX"}
CommentIds == Comments \cup UnknownIds

\* the confidences Classify may return: below, at and above the threshold
Confidences == {6, 7, 8}
\* the two sides of the quality gate: below the threshold and at it
GateConfidences == {6, 7}
\* the clause refs ClauseLink may return
ClauseCandidates == {<<"r1">>}

VARIABLES
    comments_raw,        \* [Comments -> [pii_masked, lang]], 0 = NULL
    comments_processed,  \* committed rows of comments_processed
    predictions,         \* committed rows of predictions
    summaries,           \* committed rows of summaries
    audits,              \* committed rows of audits
    run,                 \* [Workers -> the locals of the process_comment call]
    nruns,               \* process_comment calls started so far
    link                 \* the locals of the link_comment_to_clauses call

vars == <<comments_raw, comments_processed, predictions, summaries, audits,
          run, nruns, link>>

storage == <<comments_raw, comments_processed, predictions, summaries, audits>>

\* ------------------------------------------------------------ responses
\* A tool client returns response.json() or None: a set with at most one
\* response stands for Optional[Dict].  The payload of a response is opaque to
\* the coordinator; the response of call number rid carries the payload rid, so
\* that a stored value tells which call produced it.
IngestResponse(rid) ==
    [pii_masked |-> rid, language |-> rid, normalized_text |-> rid,
     embedding |-> rid]

IngestResults(rid) == {{}, {IngestResponse(rid)}}

LinkResults == {{}} \cup {{[clause_candidates |-> c]} : c \in ClauseCandidates}

ClassifyResults(rid, confidences) ==
    {{}} \cup {{[confidence |-> q, sentiment_label |-> rid]} : q \in confidences}

SummarizeResults(rid) == {{}, {[summary |-> rid]}}

The(S) == CHOOSE x \in S : TRUE

Range(s) == {s[i] : i \in 1..Len(s)}

\* ------------------------------------------------------------- sessions
EmptySession ==
    [raw |-> {}, processed |-> {}, prediction |-> {}, summary |-> {}, audit |-> {}]

\* the locals of a call; calls, failed, jobs, committed and summarized record
\* what the call has done so far.  status, error_type and confidence are the
\* result dict once the call has returned (pc = "done"); retry tells whether
\* the task wrapper has then asked the queue to deliver the task again.
NoPrev == [status |-> "", error_type |-> "", force_reprocess |-> FALSE,
           summarized |-> FALSE, existing_processed |-> 0]

IdleRun ==
    [pc |-> "idle", rid |-> 0, comment_id |-> "", force_reprocess |-> FALSE,
     existing_processed |-> 0, ingest_result |-> {}, clause_guesses |-> <<>>,
     confidence |-> -1, session |-> EmptySession, calls |-> <<>>, failed |-> {},
     jobs |-> <<>>, status |-> "", error_type |-> "", committed |-> FALSE,
     summarized |-> FALSE, retry |-> FALSE, prev |-> NoPrev]

\* When each call returns before the next begins (sequential), the result of
\* the call that returned just before this one began, if it was for comment id.
\* Overlapping deliveries have no such call.
Prev(r, id, sequential) ==
    IF sequential /\ r.pc = "done" /\ r.comment_id = id
    THEN [status |-> r.status, error_type |-> r.error_type,
          force_reprocess |-> r.force_reprocess, summarized |-> r.summarized,
          existing_processed |-> r.existing_processed]
    ELSE NoPrev

\* query(...).filter(comment_id == id).first(): one of the matching rows (no
\* ORDER BY, so any of them), 0 for None
First(table, id) ==
    LET rows == {r \in table : r.comment_id = id}
    IN  IF rows = {} THEN {0} ELSE {r.id : r \in rows}

\* the linker service before a request: its response is opaque to the
\* coordinator (LinkResults)
IdleLink ==
    [pc |-> "idle", text |-> [mentions |-> <<>>, words |-> {}], clauses |-> <<>>,
     embedding_model |-> FALSE, direct_mentions |-> <<>>, all_candidates |-> <<>>,
     final_clause_refs |-> <<>>, tiers |-> <<>>, response |-> {}]

InitStorage ==
    /\ comments_raw = [c \in Comments |-> [pii_masked |-> 0, lang |-> 0]]
    /\ comments_processed = {}
    /\ predictions = {}
    /\ summaries = {}
    /\ audits = {}
    /\ run = [w \in Workers |-> IdleRun]
    /\ nruns = 0

Init ==
    /\ InitStorage
    /\ link = IdleLink

\* ------------------------------------------------- process_comment, pure
\* mutant: the flag is tested the wrong way round
AlreadyProcessed_FlagInverted(existing_processed, force_reprocess) ==
    existing_processed # 0 /\ force_reprocess

\* Check if already processed and not forcing reprocess
AlreadyProcessed(existing_processed, force_reprocess) ==
    existing_processed # 0 /\ ~force_reprocess

\* mutant: the result of the ingest call is not tested
IngestFailed_NotTested(ingest_result) == FALSE

\* if not ingest_result:
IngestFailed(ingest_result) == ingest_result = {}

\* mutant: the result of the classify call is not tested
ClassifyFailed_NotTested(classify_result) == FALSE

\* if not classify_result:
ClassifyFailed(classify_result) == classify_result = {}

\* clause_result.get("clause_candidates", []) if clause_result else []
ClauseGuesses(clause_result) ==
    IF clause_result = {} THEN <<>> ELSE The(clause_result).clause_candidates

\* Create or update processed record: the pending write of the session.  The
\* update branch assigns text_normalized and clause_guesses only.
ProcessedUpsert(existing_processed, rid, comment_id, ingest_result, clause_guesses) ==
    IF existing_processed # 0
    THEN [op |-> "update", id |-> existing_processed, comment_id |-> comment_id,
          text_normalized |-> ingest_result.normalized_text,
          clause_guesses |-> clause_guesses,
          embedding |-> 0,
          cols |-> {"text_normalized", "clause_guesses"}]
    ELSE [op |-> "insert", id |-> rid, comment_id |-> comment_id,
          text_normalized |-> ingest_result.normalized_text,
          clause_guesses |-> clause_guesses,
          embedding |-> ingest_result.embedding,
          cols |-> {"text_normalized", "clause_guesses", "embedding"}]

\* Create or update prediction
PredictionUpsert(existing_prediction, rid, comment_id, classify_result) ==
    [op |-> IF existing_prediction # 0 THEN "update" ELSE "insert",
     id |-> IF existing_prediction # 0 THEN existing_prediction ELSE rid,
     comment_id |-> comment_id,
     sentiment_label |-> classify_result.sentiment_label,
     confidence |-> classify_result.confidence]

\* mutant: no look-up of the existing summary, always db.add
SummaryUpsert_AlwaysInsert(existing_summary, rid, comment_id, summary_result) ==
    [op |-> "insert", id |-> rid, comment_id |-> comment_id,
     summary_text |-> summary_result.summary]

\* Create or update summary
SummaryUpsert(existing_summary, rid, comment_id, summary_result) ==
    [op |-> IF existing_summary # 0 THEN "update" ELSE "insert",
     id |-> IF existing_summary # 0 THEN existing_summary ELSE rid,
     comment_id |-> comment_id,
     summary_text |-> summary_result.summary]

\* mutant: a confidence equal to the threshold counts as low
LowConfidence_Inclusive(confidence) == confidence <= confidence_threshold

\* Step 4: Quality Check
LowConfidence(confidence) == confidence < confidence_threshold

\* mutant: the force_reprocess flag is not looked at
ShouldSummarize_GateOnly(confidence, force_reprocess) ==
    confidence >= confidence_threshold

\* mutant: the summary is attempted whatever the confidence
ShouldSummarize_Always(confidence, force_reprocess) == TRUE

\* Step 5: Summarization (if confidence is OK or forced)
ShouldSummarize(confidence, force_reprocess) ==
    confidence >= confidence_threshold \/ force_reprocess

\* mutant: the result of the summarize call is not tested
SummaryStored_NotTested(summary_result) == TRUE

\* if summary_result:
SummaryStored(summary_result) == summary_result # {}

\* _audit_log: the Audit row added to the session
AuditLog(rid, entity_id, change_type, confidence) ==
    [id |-> rid, entity |-> "comment", entity_id |-> entity_id,
     change_type |-> change_type, confidence |-> confidence]

\* _trigger_post_processing: the two .delay() calls, in order
PostJobs == <<"deduplicate_comments", "extract_keywords">>

\* ------------------------------------------------- db.flush, db.commit
\* mutant: db.commit() in the place of db.flush()
Flush_Commits(table, pending) ==
    IF pending = {} \/ The(pending).op # "insert" THEN table
    ELSE table \cup {[id |-> The(pending).id,
                      comment_id |-> The(pending).comment_id,
                      text_normalized |-> The(pending).text_normalized,
                      clause_guesses |-> The(pending).clause_guesses,
                      embedding |-> The(pending).embedding]}

\* db.flush() sends the pending writes to the database inside the open
\* transaction: the committed rows stay as they are
Flush(table, pending) == table

CommitRaw(table, comment_id, pending) ==
    IF pending = {} THEN table
    ELSE [table EXCEPT ![comment_id] = The(pending)]

ProcessedRow(p) ==
    [id |-> p.id, comment_id |-> p.comment_id,
     text_normalized |-> p.text_normalized, clause_guesses |-> p.clause_guesses,
     embedding |-> p.embedding]

\* mutant: the new processed record is never added to the session
CommitProcessed_InsertLost(table, pending) ==
    IF pending = {} \/ The(pending).op = "insert" THEN table
    ELSE {IF r.id # The(pending).id THEN r
          ELSE [r EXCEPT !.text_normalized = The(pending).text_normalized,
                         !.clause_guesses = The(pending).clause_guesses] : r \in table}

\* INSERT, or UPDATE ... SET <the assigned columns> WHERE id = p.id
CommitProcessed(table, pending) ==
    IF pending = {} THEN table
    ELSE LET p == The(pending)
         IN  IF p.op = "insert" THEN table \cup {ProcessedRow(p)}
             ELSE {IF r.id # p.id THEN r
                   ELSE [r EXCEPT
                           !.text_normalized =
                               IF "text_normalized" \in p.cols
                               THEN p.text_normalized ELSE @,
                           !.clause_guesses =
                               IF "clause_guesses" \in p.cols
                               THEN p.clause_guesses ELSE @,
                           !.embedding =
                               IF "embedding" \in p.cols
                               THEN p.embedding ELSE @] : r \in table}

PredictionRow(p) ==
    [id |-> p.id, comment_id |-> p.comment_id,
     sentiment_label |-> p.sentiment_label, confidence |-> p.confidence]

\* mutant: the INSERT of a Prediction row does not reach the table
CommitPrediction_InsertLost(table, pending) ==
    IF pending = {} THEN table
    ELSE LET p == The(pending)
         IN  IF p.op = "insert" THEN table
             ELSE {IF r.id # p.id THEN r ELSE PredictionRow(p) : r \in table}

CommitPrediction(table, pending) ==
    IF pending = {} THEN table
    ELSE LET p == The(pending)
         IN  IF p.op = "insert" THEN table \cup {PredictionRow(p)}
             ELSE {IF r.id # p.id THEN r ELSE PredictionRow(p) : r \in table}

SummaryRow(p) ==
    [id |-> p.id, comment_id |-> p.comment_id, summary_text |-> p.summary_text]

CommitSummary(table, pending) ==
    IF pending = {} THEN table
    ELSE LET p == The(pending)
         IN  IF p.op = "insert" THEN table \cup {SummaryRow(p)}
             ELSE {IF r.id # p.id THEN r ELSE SummaryRow(p) : r \in table}

\* ------------------------------------------------ process_comment_async
\* Every statement of process_comment after db = SessionLocal() is inside the
\* try whose except returns the processing_failed dict: the call ends with a
\* return (lines 60, 65, 99, 174, 186), never with an exception.
ProcessCommentRaises == FALSE

\* except Exception as e: self.retry(countdown=60, exc=e), which queues the
\* task again while request.retries < max_retries
TaskRetry(raised, retries) == raised /\ retries < max_retries

\* ----------------------------------------------------- process_comment
\* return, after finally: db.close() has discarded what is uncommitted; the
\* locals are gone, the result dict (confidence in a success result only) and
\* the record of the tools called and the jobs scheduled stay.  The task
\* wrapper returns the result dict, or retries if the call raised.
Return(w, r, status, error_type) ==
    /\ UNCHANGED link
    /\ run' = [run EXCEPT ![w] =
                  [IdleRun EXCEPT !.pc = "done", !.status = status,
                                  !.error_type = error_type,
                                  !.comment_id = r.comment_id,
                                  !.force_reprocess = r.force_reprocess,
                                  !.existing_processed = r.existing_processed,
                                  !.confidence = IF status = "success" THEN r.confidence ELSE -1,
                                  !.calls = r.calls, !.failed = r.failed,
                                  !.jobs = r.jobs, !.committed = r.committed,
                                  !.summarized = (status = "success" /\ r.summarized),
                                  !.retry = TaskRetry(ProcessCommentRaises, 0),
                                  !.prev = r.prev]]

\* mutant: the clause linking and the processed record are skipped
Goto_SkipsLink(w, r, pc) ==
    /\ UNCHANGED link
    /\ run' = [run EXCEPT ![w] =
                  [r EXCEPT !.pc = IF pc = "link" THEN "classify" ELSE pc]]

Goto(w, r, pc) ==
    /\ UNCHANGED link
    /\ run' = [run EXCEPT ![w] = [r EXCEPT !.pc = pc]]

\* the task is delivered: lines 45-60
Begin(w, id, force, db_ok, max_runs, sequential) ==
    /\ run[w].pc \in {"idle", "done"}
    /\ nruns < max_runs
    /\ nruns' = nruns + 1
    /\ UNCHANGED storage
    /\ LET r0 == [IdleRun EXCEPT !.rid = nruns + 1, !.comment_id = id,
                                 !.force_reprocess = force,
                                 !.prev = Prev(run[w], id, sequential)]
       IN  IF ~db_ok \/ id \notin Comments
           THEN Return(w, r0, "error", "processing_failed")
           ELSE \E e \in First(comments_processed, id) :
                   LET r1 == [r0 EXCEPT !.existing_processed = e]
                   IN  IF AlreadyProcessed(e, force)
                       THEN Return(w, r1, "already_processed", "")
                       ELSE Goto(w, r1, "ingest")

\* Step 1: lines 62-69
Ingest(w, ingest_result) ==
    /\ run[w].pc = "ingest"
    /\ UNCHANGED <<storage, nruns>>
    /\ LET r1 == [run[w] EXCEPT !.calls = Append(@, "ingest")]
           r2 == [r1 EXCEPT !.failed = IF ingest_result = {}
                                       THEN @ \cup {"ingest"} ELSE @]
       IN  IF IngestFailed(ingest_result)
           THEN Return(w, r2, "error", "ingest_failed")
           ELSE IF ingest_result = {}
           \* None.get(...) raises AttributeError: except Exception
           THEN Return(w, r2, "error", "processing_failed")
           ELSE Goto(w, [r1 EXCEPT !.ingest_result = ingest_result,
                                   !.session.raw =
                                       {[pii_masked |-> The(ingest_result).pii_masked,
                                         lang |-> The(ingest_result).language]}],
                     "link")

\* Step 2 and the upsert of the processed record: lines 71-91
ClauseLink(w, clause_result, db_ok) ==
    /\ run[w].pc = "link"
    /\ UNCHANGED <<comments_raw, predictions, summaries, audits, nruns>>
    /\ LET r == run[w]
           clause_guesses == ClauseGuesses(clause_result)
           r1 == [r EXCEPT !.calls = Append(@, "clause_linker"),
                           !.failed = IF clause_result = {}
                                      THEN @ \cup {"clause_linker"} ELSE @,
                           !.clause_guesses = clause_guesses,
                           !.session.processed =
                               {ProcessedUpsert(r.existing_processed, r.rid,
                                                r.comment_id, The(r.ingest_result),
                                                clause_guesses)}]
       IN  IF ~db_ok
           THEN /\ UNCHANGED comments_processed
                /\ Return(w, r1, "error", "processing_failed")
           ELSE /\ comments_processed' =
                       Flush(comments_processed, r1.session.processed)
                /\ Goto(w, r1, "classify")

\* Step 3, the upsert of the prediction and Step 4: lines 93-139
Classify(w, classify_result, db_ok) ==
    /\ run[w].pc = "classify"
    /\ UNCHANGED <<storage, nruns>>
    /\ LET r == run[w]
           r1 == [r EXCEPT !.calls = Append(@, "classify"),
                           !.failed = IF classify_result = {}
                                      THEN @ \cup {"classify"} ELSE @]
       IN  IF ClassifyFailed(classify_result)
           THEN Return(w, r1, "error", "classify_failed")
           \* None.get(...) raises AttributeError: except Exception
           ELSE IF classify_result = {} \/ ~db_ok
           THEN Return(w, r1, "error", "processing_failed")
           ELSE \E ep \in First(predictions, r.comment_id) :
                   LET confidence == The(classify_result).confidence
                       r2 == [r1 EXCEPT
                                !.confidence = confidence,
                                !.session.prediction =
                                    {PredictionUpsert(ep, r.rid, r.comment_id,
                                                      The(classify_result))},
                                !.session.audit =
                                    IF LowConfidence(confidence)
                                    THEN {AuditLog(r.rid, r.comment_id,
                                                   "low_confidence", confidence)}
                                    ELSE {}]
                   IN  IF ShouldSummarize(confidence, r.force_reprocess)
                       THEN Goto(w, r2, "summarize")
                       ELSE Goto(w, r2, "commit")

\* Step 5: lines 141-165
Summarize(w, summary_result, db_ok) ==
    /\ run[w].pc = "summarize"
    /\ UNCHANGED <<storage, nruns>>
    /\ LET r == run[w]
           r1 == [r EXCEPT !.calls = Append(@, "summarize"),
                           !.failed = IF summary_result = {}
                                      THEN @ \cup {"summarize"} ELSE @]
       IN  IF ~SummaryStored(summary_result)
           THEN Goto(w, r1, "commit")
           \* None.get(...) raises AttributeError: except Exception
           ELSE IF summary_result = {} \/ ~db_ok
           THEN Return(w, r1, "error", "processing_failed")
           ELSE \E es \in First(summaries, r.comment_id) :
                   Goto(w, [r1 EXCEPT
                              !.summarized = TRUE,
                              !.session.summary =
                                  {SummaryUpsert(es, r.rid, r.comment_id,
                                                 The(summary_result))}],
                        "commit")

\* db.commit(): line 167
Commit(w, db_ok) ==
    /\ run[w].pc = "commit"
    /\ UNCHANGED nruns
    /\ LET r == run[w]
           s == r.session
       IN  IF ~db_ok
           THEN /\ UNCHANGED storage
                /\ Return(w, r, "error", "processing_failed")
           ELSE /\ comments_raw' = CommitRaw(comments_raw, r.comment_id, s.raw)
                /\ comments_processed' = CommitProcessed(comments_processed, s.processed)
                /\ predictions' = CommitPrediction(predictions, s.prediction)
                /\ summaries' = CommitSummary(summaries, s.summary)
                /\ audits' = audits \cup s.audit
                /\ Goto(w, [r EXCEPT !.committed = TRUE, !.session = EmptySession],
                        "post")

\* Step 6 & 7 and the return: lines 169-186.  sent .delay() calls go through
\* before one raises (the broker is unreachable); sent = 2: none raises.
PostProcessing(w, sent) ==
    /\ run[w].pc = "post"
    /\ UNCHANGED <<storage, nruns>>
    /\ LET r1 == [run[w] EXCEPT !.jobs = SubSeq(PostJobs, 1, sent)]
       IN  IF sent < Len(PostJobs)
           THEN Return(w, r1, "error", "processing_failed")
           ELSE Return(w, r1, "success", "")

Step(w, confidences, max_runs, sequential) ==
    \/ \E id \in CommentIds, force \in BOOLEAN, db_ok \in BOOLEAN :
          Begin(w, id, force, db_ok, max_runs, sequential)
    \/ \E res \in IngestResults(run[w].rid) : Ingest(w, res)
    \/ \E res \in LinkResults, db_ok \in BOOLEAN : ClauseLink(w, res, db_ok)
    \/ \E res \in ClassifyResults(run[w].rid, confidences), db_ok \in BOOLEAN :
          Classify(w, res, db_ok)
    \/ \E res \in SummarizeResults(run[w].rid), db_ok \in BOOLEAN :
          Summarize(w, res, db_ok)
    \/ \E db_ok \in BOOLEAN : Commit(w, db_ok)
    \/ \E sent \in 0..Len(PostJobs) : PostProcessing(w, sent)

\* the deliveries of the task queue run concurrently
Next == \E w \in Workers : Step(w, GateConfidences, MaxRuns, FALSE)

Spec == Init /\ [][Next]_vars

\* one delivery at a time: every call returns before the next one begins
SeqNext == Step(1, Confidences, MaxSeqRuns, TRUE)

SeqSpec == Init /\ [][SeqNext]_vars

\* ======================================================= clause linker
\* ------------------------------------------------------------- strings
\* a string is the sequence of its characters; str.lower()
LowerChar(c) ==
    CASE c = "S" -> "s"
      [] c = "B" -> "b"
      [] OTHER -> c

Lower(str) == [i \in DOMAIN str |-> LowerChar(str[i])]

\* a in b, for two strings
IsSubstring(a, b) ==
    \E i \in 0..(Len(b) - Len(a)) : SubSeq(b, i + 1, i + Len(a)) = a

Min(a, b) == IF a <= b THEN a ELSE b

\* seq[:n]
Take(seq, n) == SubSeq(seq, 1, Min(n, Len(seq)))

\* --------------------------------------------------------------- inputs
\* The rows of the clauses table a draft may hold (ref and text are NOT NULL,
\* embedding is nullable).  text is the set of the words of the clause text;
\* embedding is the cosine similarity of the stored vector with the embedding
\* of the comment as line 157 computes it, in 1/Scale, 0 for NULL.  The
\* quotient of line 157 is a rounded float: for two parallel vectors it can
\* come out just above 1.0, which Scale + 1 stands for.
ClausePool ==
    << [ref |-> <<"S", "8", "a">>, text |-> {"fee", "late"}, embedding |-> 1512],
       [ref |-> <<"8", "b">>, text |-> {"fee"}, embedding |-> 1008],
       [ref |-> <<"8", "c">>, text |-> {"fee", "late", "pay", "due"},
        embedding |-> 756],
       [ref |-> <<"8", "d">>, text |-> {"pay"}, embedding |-> 0],
       [ref |-> <<"8", "e">>,
        text |-> {"fee", "late", "o1", "o2", "o3", "o4", "o5", "o6", "o7", "o8"},
        embedding |-> 1260],
       [ref |-> <<"8">>, text |-> {"late"}, embedding |-> 882],
       [ref |-> <<"9">>, text |-> {"due", "pay"}, embedding |-> 1134],
       [ref |-> <<"S", "8", "a">>, text |-> {"fee", "pay"}, embedding |-> 1008],
       [ref |-> <<"9", "b">>, text |-> {"due"}, embedding |-> Scale + 1],
       [ref |-> <<"9", "c">>, text |-> {"pay", "due", "late"}, embedding |-> 945],
       [ref |-> <<"9", "d">>, text |-> {"o1"}, embedding |-> 504] >>

RECURSIVE Ascending(_)
Ascending(S) ==
    IF S = {} THEN <<>>
    ELSE LET m == CHOOSE x \in S : \A y \in S : x <= y
         IN  <<m>> \o Ascending(S \ {m})

Reverse(seq) == [i \in 1..Len(seq) |-> seq[Len(seq) + 1 - i]]

\* query(Clause).filter(draft_id == ...).all(): at most MaxClauses rows, in
\* the order of their insertion or in the opposite order
ClauseLists ==
    LET ids == {S \in SUBSET (1..Len(ClausePool)) : Cardinality(S) <= MaxClauses}
        rows(o) == [i \in 1..Len(o) |-> ClausePool[o[i]]]
    IN  {rows(Ascending(S)) : S \in ids} \cup {rows(Reverse(Ascending(S))) : S \in ids}

\* The comment text, as the linker reads it: the references the patterns of
\* find_direct_mentions extract from it, normalized, in order and without
\* repetition (line 98), and the set of its lower-cased words (line 180).
Mentions ==
    {<<>>, << <<"7">> >>, << <<"8">> >>, << <<"8", "B">> >>,
     << <<"8", "B">>, <<"8">> >>}

WordSets == {{"fee", "late"}, {"fee"}, {"zz"}}

Texts == {[mentions |-> m, words |-> w] : m \in Mentions, w \in WordSets}

\* ----------------------------------------------------------- the tiers
ClauseCandidate(clause, similarity_score, match_type) ==
    [clause_ref |-> clause.ref, clause_text |-> clause.text,
     similarity_score |-> similarity_score, match_type |-> match_type]

\* mutant: the emptiness of the clause list is not tested
NoClauses_NotTested(clauses) == FALSE

\* if not clauses:
NoClauses(clauses) == clauses = <<>>

\* mutant: the two strings are compared as they are written
DirectMatch_CaseSensitive(mention, clause) ==
    \/ IsSubstring(mention, clause.ref)
    \/ IsSubstring(clause.ref, mention)

\* mention.lower() in clause['ref'].lower() or
\* clause['ref'].lower() in mention.lower()
DirectMatch(mention, clause) ==
    \/ IsSubstring(Lower(mention), Lower(clause.ref))
    \/ IsSubstring(Lower(clause.ref), Lower(mention))

\* for mention in direct_mentions: for clause in clauses: the exact
\* candidates in the order they are appended
DirectCandidates(direct_mentions, clauses) ==
    LET n == Len(clauses)
        pairs == [k \in 1..(Len(direct_mentions) * n) |->
                     [mention |-> direct_mentions[((k - 1) \div n) + 1],
                      clause |-> clauses[((k - 1) % n) + 1]]]
        hit(p) == DirectMatch(p.mention, p.clause)
        hits == SelectSeq(pairs, hit)
    IN  [k \in 1..Len(hits) |-> ClauseCandidate(hits[k].clause, Scale, "exact")]

\* candidates.sort(key=lambda x: x.similarity_score, reverse=True): stable,
\* candidates of equal score keep their order
RECURSIVE SortDescending(_)
SortDescending(candidates) ==
    IF candidates = <<>> THEN <<>>
    ELSE LET n == Len(candidates)
             x == candidates[n]
             sorted == SortDescending(SubSeq(candidates, 1, n - 1))
             ahead(c) == c.similarity_score >= x.similarity_score
             behind(c) == c.similarity_score < x.similarity_score
         IN  SelectSeq(sorted, ahead) \o <<x>> \o SelectSeq(sorted, behind)

\* semantic_similarity_search
SemanticSimilaritySearch(embedding_model, clauses) ==
    IF ~embedding_model \/ clauses = <<>> THEN <<>>
    ELSE LET kept(c) == c.embedding # 0 /\ c.embedding > similarity_threshold
             found == SelectSeq(clauses, kept)
             candidates == [k \in 1..Len(found) |->
                               ClauseCandidate(found[k], found[k].embedding,
                                               "semantic")]
         IN  Take(SortDescending(candidates), max_candidates)

\* intersection / union of the two word sets, in 1/Scale
Jaccard(query_words, clause_words) ==
    (Cardinality(query_words \cap clause_words) * Scale)
        \div Cardinality(query_words \cup clause_words)

\* mutant: a Jaccard score equal to 0.1 is kept
FuzzyTextMatching_Inclusive(query_words, clauses) ==
    LET kept(c) == /\ Cardinality(query_words \cup c.text) > 0
                   /\ Jaccard(query_words, c.text) >= fuzzy_threshold
        found == SelectSeq(clauses, kept)
        candidates == [k \in 1..Len(found) |->
                          ClauseCandidate(found[k],
                                          Jaccard(query_words, found[k].text),
                                          "fuzzy")]
    IN  Take(SortDescending(candidates), max_candidates)

\* fuzzy_text_matching
FuzzyTextMatching(query_words, clauses) ==
    LET kept(c) == /\ Cardinality(query_words \cup c.text) > 0
                   /\ Jaccard(query_words, c.text) > fuzzy_threshold
        found == SelectSeq(clauses, kept)
        candidates == [k \in 1..Len(found) |->
                          ClauseCandidate(found[k],
                                          Jaccard(query_words, found[k].text),
                                          "fuzzy")]
    IN  Take(SortDescending(candidates), max_candidates)

\* mutant: the refs are appended without looking for them in the list
AppendNewRefs_NoDedup(final_clause_refs, candidates) ==
    final_clause_refs \o [i \in 1..Len(candidates) |-> candidates[i].clause_ref]

\* mutant: only the ref of the first candidate is looked at
AppendNewRefs_FirstOnly(final_clause_refs, candidates) ==
    IF candidates = <<>> \/ Head(candidates).clause_ref \in Range(final_clause_refs)
    THEN final_clause_refs
    ELSE Append(final_clause_refs, Head(candidates).clause_ref)

\* for candidate in candidates: if candidate.clause_ref not in
\* final_clause_refs: final_clause_refs.append(candidate.clause_ref)
RECURSIVE AppendNewRefs(_, _)
AppendNewRefs(final_clause_refs, candidates) ==
    IF candidates = <<>> THEN final_clause_refs
    ELSE LET ref == Head(candidates).clause_ref
         IN  AppendNewRefs(IF ref \in Range(final_clause_refs)
                           THEN final_clause_refs
                           ELSE Append(final_clause_refs, ref),
                           Tail(candidates))

\* max(c.similarity_score for c in all_candidates), of a non-empty list
MaxScore(candidates) ==
    CHOOSE m \in {candidates[i].similarity_score : i \in 1..Len(candidates)} :
        \A i \in 1..Len(candidates) : candidates[i].similarity_score <= m

\* mutant: the fuzzy tier is tried whatever was found before
FuzzyNeeded_Always(all_candidates) == TRUE

\* mutant: a best score equal to 0.5 counts as weak
FuzzyNeeded_Inclusive(all_candidates) ==
    all_candidates = <<>> \/ MaxScore(all_candidates) <= weak_score

\* Step 5: If still no good matches, try fuzzy matching
FuzzyNeeded(all_candidates) ==
    all_candidates = <<>> \/ MaxScore(all_candidates) < weak_score

\* mutant: the best score is returned as it is
Confidence_Unclamped(all_candidates) ==
    IF all_candidates # <<>> THEN MaxScore(all_candidates) ELSE 0

\* Calculate overall confidence
Confidence(all_candidates) ==
    IF all_candidates # <<>> THEN Min(MaxScore(all_candidates), Scale) ELSE 0

LinkResponse(clause_candidates, detailed_matches, confidence) ==
    [clause_candidates |-> clause_candidates,
     detailed_matches |-> detailed_matches, confidence |-> confidence]

\* ------------------------------------------- link_comment_to_clauses
\* a request: any text and any clause list, with the embedding model loaded
\* or not (lines 39-44)
LinkInit ==
    /\ InitStorage
    /\ \E text \in Texts, clauses \in ClauseLists, embedding_model \in BOOLEAN :
          link = [IdleLink EXCEPT !.pc = "start", !.text = text,
                                  !.clauses = clauses,
                                  !.embedding_model = embedding_model]

\* Steps 1 and 2: lines 208-223
LinkStart ==
    /\ UNCHANGED <<storage, run, nruns>>
    /\ link.pc = "start"
    /\ LET l1 == [link EXCEPT !.direct_mentions = link.text.mentions]
       IN  IF NoClauses(link.clauses)
           THEN link' = [l1 EXCEPT !.pc = "done",
                                   !.response = {LinkResponse(<<>>, <<>>, 0)}]
           ELSE link' = [l1 EXCEPT !.pc = "direct"]

\* Step 3: lines 225-239
DirectTier ==
    /\ UNCHANGED <<storage, run, nruns>>
    /\ link.pc = "direct"
    /\ IF link.direct_mentions # <<>>
       THEN LET found == DirectCandidates(link.direct_mentions, link.clauses)
            IN  link' = [link EXCEPT
                           !.pc = "semantic",
                           !.tiers = Append(@, "direct"),
                           !.all_candidates = @ \o found,
                           !.final_clause_refs = AppendNewRefs(@, found)]
       ELSE link' = [link EXCEPT !.pc = "semantic"]

\* Step 4: lines 241-248
SemanticTier ==
    /\ UNCHANGED <<storage, run, nruns>>
    /\ link.pc = "semantic"
    /\ IF link.all_candidates = <<>>
       THEN LET semantic_candidates ==
                    SemanticSimilaritySearch(link.embedding_model, link.clauses)
            IN  link' = [link EXCEPT
                           !.pc = "fuzzy",
                           !.tiers = Append(@, "semantic"),
                           !.all_candidates = @ \o semantic_candidates,
                           !.final_clause_refs =
                               AppendNewRefs(@, semantic_candidates)]
       ELSE link' = [link EXCEPT !.pc = "fuzzy"]

\* Step 5: lines 250-257
FuzzyTier ==
    /\ UNCHANGED <<storage, run, nruns>>
    /\ link.pc = "fuzzy"
    /\ IF FuzzyNeeded(link.all_candidates)
       THEN LET fuzzy_candidates ==
                    FuzzyTextMatching(link.text.words, link.clauses)
            IN  link' = [link EXCEPT
                           !.pc = "respond",
                           !.tiers = Append(@, "fuzzy"),
                           !.all_candidates = @ \o fuzzy_candidates,
                           !.final_clause_refs =
                               AppendNewRefs(@, fuzzy_candidates)]
       ELSE link' = [link EXCEPT !.pc = "respond"]

\* the confidence, the two cuts and the response: lines 259-274
LinkRespond ==
    /\ UNCHANGED <<storage, run, nruns>>
    /\ link.pc = "respond"
    /\ LET confidence == Confidence(link.all_candidates)
           all_candidates == Take(link.all_candidates, max_candidates)
           final_clause_refs == Take(link.final_clause_refs, max_candidates)
       IN  link' = [link EXCEPT
                      !.pc = "done",
                      !.all_candidates = all_candidates,
                      !.final_clause_refs = final_clause_refs,
                      !.response = {LinkResponse(final_clause_refs,
                                                 all_candidates, confidence)}]

LinkNext ==
    \/ LinkStart
    \/ DirectTier
    \/ SemanticTier
    \/ FuzzyTier
    \/ LinkRespond

LinkSpec == LinkInit /\ [][LinkNext]_vars

\* ================================================================ claims
RowsOf(table, id) == {r \in table : r.comment_id = id}

Running == {"ingest", "link", "classify", "summarize", "commit", "post"}

\* the step of worker w is the return of its call
Returns(w) == run[w].pc \in Running /\ run'[w].pc = "done"

\* C1: sequential idempotency.  When Process(id, forceReprocess=false) has
\* returned Success, the following Process(id, forceReprocess=false) calls no
\* tool and returns AlreadyProcessed (processing_failed only if its own storage
\* query raised), and storage then holds exactly one CommentProcessed row and
\* exactly one Prediction row for the comment.
C1_SequentialIdempotency ==
    \A w \in Workers :
        LET r == run[w]
        IN  (r.pc # "idle" /\ ~r.force_reprocess
             /\ r.prev.status = "success" /\ ~r.prev.force_reprocess)
            => /\ r.pc = "done"
               /\ r.calls = <<>>
               /\ r.status = "already_processed" \/ r.error_type = "processing_failed"
               /\ r.existing_processed # 0 => r.status = "already_processed"
               /\ Cardinality(RowsOf(comments_processed, r.comment_id)) = 1
               /\ Cardinality(RowsOf(predictions, r.comment_id)) = 1

C1_Witness ==
    \E w \in Workers :
        /\ run[w].pc = "done" /\ run[w].status = "already_processed"
        /\ ~run[w].force_reprocess
        /\ run[w].prev.status = "success" /\ ~run[w].prev.force_reprocess
        /\ Cardinality(RowsOf(comments_processed, run[w].comment_id)) = 1

\* C2: in every reachable storage state, under any interleaving of Process
\* calls, a CommentRaw has at most one CommentProcessed row, at most one
\* Prediction row and at most one Summary row.
C2_AtMostOneRow ==
    \A c \in Comments :
        /\ Cardinality(RowsOf(comments_processed, c)) <= 1
        /\ Cardinality(RowsOf(predictions, c)) <= 1
        /\ Cardinality(RowsOf(summaries, c)) <= 1

\* exactly one row for the comment, and the call that began last did not insert it
OneOldRow(table, id) ==
    /\ Cardinality(RowsOf(table, id)) = 1
    /\ \A x \in RowsOf(table, id) : x.id # nruns

\* C3: reprocess never duplicates.  After two or more sequential
\* Process(id, forceReprocess=true) calls that each returned Success with a
\* successful Summarize call, storage holds exactly one CommentProcessed, one
\* Prediction and one Summary row for the comment, and none of them was
\* inserted by the last call (nruns is the number of the last call; a row a
\* call inserts takes the call's number as id).
C3_ReprocessNeverDuplicates ==
    \A w \in Workers :
        LET r == run[w]
        IN  (/\ r.pc = "done" /\ r.status = "success"
             /\ r.force_reprocess /\ r.summarized
             /\ r.prev.status = "success" /\ r.prev.force_reprocess
             /\ r.prev.summarized)
            => /\ OneOldRow(comments_processed, r.comment_id)
               /\ OneOldRow(predictions, r.comment_id)
               /\ OneOldRow(summaries, r.comment_id)

C3_Witness ==
    \E w \in Workers :
        /\ run[w].pc = "done" /\ run[w].status = "success"
        /\ run[w].force_reprocess /\ run[w].summarized
        /\ run[w].prev.status = "success" /\ run[w].prev.force_reprocess
        /\ run[w].prev.summarized
        /\ Cardinality(RowsOf(summaries, run[w].comment_id)) = 1

\* C4: reprocess stores the latest values.  When a Process(id,
\* forceReprocess=true) call on a comment that already had a CommentProcessed
\* row returns Success, every field of the CommentProcessed row
\* (text_normalized, clause_guesses, embedding) and of the Prediction row is the
\* value this call's Ingest, ClauseLink and Classify calls returned.
C4_ReprocessStoresLatest ==
    [][\A w \in Workers :
          (/\ run[w].pc = "post" /\ run'[w].status = "success"
           /\ run[w].force_reprocess /\ run[w].existing_processed # 0)
          => /\ \A x \in RowsOf(comments_processed', run[w].comment_id) :
                   /\ x.text_normalized = The(run[w].ingest_result).normalized_text
                   /\ x.clause_guesses = run[w].clause_guesses
                   /\ x.embedding = The(run[w].ingest_result).embedding
             /\ \A x \in RowsOf(predictions', run[w].comment_id) :
                   /\ x.confidence = run[w].confidence
                   /\ x.sentiment_label = run[w].rid]_vars

\* C5: a call that finds a CommentProcessed row while forceReprocess is false
\* returns AlreadyProcessed at once: it calls no tool (so nothing is ever
\* pending in its session), commits nothing and schedules no job; and no call
\* returns AlreadyProcessed otherwise.
C5_AlreadyProcessedDoesNothing ==
    \A w \in Workers :
        LET r == run[w]
        IN  /\ (r.pc # "idle" /\ r.existing_processed # 0 /\ ~r.force_reprocess)
               => (r.pc = "done" /\ r.status = "already_processed")
            /\ r.status = "already_processed"
               => /\ r.existing_processed # 0 /\ ~r.force_reprocess
                  /\ r.calls = <<>> /\ r.jobs = <<>> /\ ~r.committed

C5_Witness ==
    \E w \in Workers :
        /\ run[w].pc = "done" /\ run[w].status = "already_processed"
        /\ run[w].existing_processed # 0 /\ ~run[w].force_reprocess
        /\ RowsOf(comments_processed, run[w].comment_id) # {}

C7_ErrorCommitsNothing ==
    \A w \in Workers :
        (run[w].pc = "done" /\ run[w].status = "error") => ~run[w].committed

\* C8: if the Ingest call fails, the call returns Error ingest_failed, Ingest
\* is the only tool it has called, the step leaves storage as it was (no
\* CommentProcessed row, CommentRaw.pii_masked/lang untouched), the call never
\* commits and schedules no job; a call that goes on has an ingest result.
C8_IngestFailure ==
    [][\A w \in Workers :
          /\ (run[w].pc = "ingest" /\ run'[w] # run[w])
             => /\ run'[w].calls = <<"ingest">>
                /\ storage' = storage
                /\ \/ /\ run'[w].pc = "link"
                      /\ run'[w].failed = {}
                      /\ run'[w].ingest_result # {}
                   \/ /\ run'[w].pc = "done"
                      /\ run'[w].failed = {"ingest"}
                      /\ run'[w].status = "error"
                      /\ run'[w].error_type = "ingest_failed"
                      /\ run'[w].jobs = <<>> /\ ~run'[w].committed
                      /\ run'[w].session = EmptySession]_vars

C8_Witness ==
    \E w \in Workers :
        /\ run[w].pc = "done" /\ "ingest" \in run[w].failed
        /\ run[w].error_type = "ingest_failed"
        /\ comments_raw[run[w].comment_id].pii_masked = 0

\* C9 as stated: a failure of the Ingest, ClauseLink or Classify call ends the
\* run in Error with the failed call as the last tool called.
C9_AnyStageFailureIsTerminal ==
    \A w \in Workers :
        \A t \in {"ingest", "clause_linker", "classify"} :
            t \in run[w].failed
            => /\ run[w].pc = "done" /\ run[w].status = "error"
               /\ run[w].calls[Len(run[w].calls)] = t

\* C9 amended: a failure of the Ingest or of the Classify call ends the run in
\* Error (ingest_failed, classify_failed) with the failed call as the last tool
\* called.  A failed ClauseLink call is no error: the clause guesses are the
\* empty list and the run goes on to Classify (unless the flush raises).
C9_IngestClassifyFailureIsTerminal ==
    \A w \in Workers :
        LET r == run[w]
        IN  /\ \A t \in {"ingest", "classify"} :
                  t \in r.failed
                  => /\ r.pc = "done" /\ r.status = "error"
                     /\ r.error_type = IF t = "ingest" THEN "ingest_failed"
                                       ELSE "classify_failed"
                     /\ r.calls[Len(r.calls)] = t
            /\ "clause_linker" \in r.failed
               => /\ r.pc \in Running
                     => /\ r.clause_guesses = <<>>
                        /\ \A p \in r.session.processed : p.clause_guesses = <<>>
                  /\ r.pc = "done"
                     => \/ "classify" \in Range(r.calls)
                        \/ /\ r.error_type = "processing_failed"
                           /\ r.calls = <<"ingest", "clause_linker">>

C9_Witness ==
    \E w \in Workers :
        /\ run[w].pc = "done" /\ run[w].status = "success"
        /\ "clause_linker" \in run[w].failed
        /\ \E x \in RowsOf(comments_processed, run[w].comment_id) :
              x.clause_guesses = <<>>

\* the audit record of the quality gate for a call
GateAudit(r) ==
    IF r.confidence < confidence_threshold
    THEN {AuditLog(r.rid, r.comment_id, "low_confidence", r.confidence)}
    ELSE {}

\* C10: the quality gate is advisory and uses >=.  A call that passes the gate
\* has exactly one low_confidence Audit record pending if the confidence is
\* below the threshold and none if it is at or above it; its commit appends
\* just that to the audits and stores the Prediction with this confidence;
\* after the gate only an exception (processing_failed) gives Error, and the
\* call whose jobs are scheduled returns Success with this confidence.
C10_QualityGate ==
    [][\A w \in Workers :
          /\ (run[w].pc = "classify" /\ run'[w].pc \in {"summarize", "commit"})
             => /\ run'[w].confidence \in Confidences
                /\ run'[w].session.audit = GateAudit(run'[w])
                /\ \E p \in run'[w].session.prediction :
                      p.confidence = run'[w].confidence
          /\ (run[w].pc = "commit" /\ run'[w].pc = "post")
             => /\ run[w].session.audit = GateAudit(run[w])
                /\ audits' \ audits = GateAudit(run[w])
                /\ \E p \in RowsOf(predictions', run[w].comment_id) :
                      /\ p.confidence = run[w].confidence
                      /\ p.sentiment_label = run[w].rid
          /\ (Returns(w) /\ run[w].confidence # -1)
             => /\ run'[w].status = "error"
                   => run'[w].error_type = "processing_failed"
                /\ run'[w].jobs = PostJobs
                   => /\ run'[w].status = "success"
                      /\ run'[w].confidence = run[w].confidence
                      /\ run'[w].committed]_vars

C10_Witness ==
    \E w \in Workers :
        /\ run[w].pc = "done" /\ run[w].status = "success"
        /\ run[w].confidence < confidence_threshold
        /\ \E a \in audits : a.change_type = "low_confidence"
                               /\ a.confidence = run[w].confidence
        /\ \E p \in RowsOf(predictions, run[w].comment_id) :
              p.confidence = run[w].confidence

Last(s) == s[Len(s)]

\* C11: the Summarize tool is called if and only if confidence >= threshold or
\* forceReprocess.  A call that has passed Classify goes to the Summarize call
\* exactly in that case and makes the call there; the tool is called nowhere
\* else; with a confidence below the threshold and forceReprocess false the
\* call reaches its commit without a Summarize call and with no Summary write
\* pending, and its commit leaves the summaries as they are.
C11_SummarizeIffGateOrForce ==
    [][\A w \in Workers :
          /\ (run[w].pc = "classify" /\ run'[w].pc \in {"summarize", "commit"})
             => (run'[w].pc = "summarize"
                 <=> (run'[w].confidence >= confidence_threshold
                      \/ run[w].force_reprocess))
          /\ (run[w].pc = "summarize" /\ run'[w] # run[w])
             => run'[w].calls = Append(run[w].calls, "summarize")
          /\ (run'[w].calls # run[w].calls /\ run'[w].calls # <<>>
              /\ Last(run'[w].calls) = "summarize")
             => run[w].pc = "summarize"
          /\ (/\ run[w].pc = "commit" /\ run'[w] # run[w]
              /\ run[w].confidence < confidence_threshold
              /\ ~run[w].force_reprocess)
             => /\ "summarize" \notin Range(run[w].calls)
                /\ run[w].session.summary = {}
                /\ summaries' = summaries]_vars

C11_Witness ==
    \E w \in Workers :
        /\ run[w].pc = "done" /\ run[w].status = "success"
        /\ run[w].confidence < confidence_threshold /\ ~run[w].force_reprocess
        /\ "summarize" \notin Range(run[w].calls)
        /\ RowsOf(predictions, run[w].comment_id) # {}
        /\ RowsOf(summaries, run[w].comment_id) = {}

\* C12: a failed Summarize call is swallowed.  The call goes on to its commit
\* with its pending writes as they were and no Summary write; the commit
\* stores the CommentProcessed and the Prediction of this call and leaves the
\* summaries as they are; the call returns Success, unless db.commit() or a
\* .delay() raises (processing_failed), and always when both jobs are scheduled.
C12_SummarizeFailureSwallowed ==
    [][\A w \in Workers :
          /\ (run[w].pc = "summarize" /\ "summarize" \in run'[w].failed)
             => /\ run'[w].pc = "commit"
                /\ run'[w].session = run[w].session
                /\ run'[w].session.summary = {}
                /\ ~run'[w].summarized
          /\ (/\ run[w].pc = "commit" /\ run'[w].pc = "post"
              /\ "summarize" \in run[w].failed)
             => /\ summaries' = summaries
                /\ \E x \in RowsOf(comments_processed', run[w].comment_id) :
                      x.text_normalized = run[w].rid
                /\ \E x \in RowsOf(predictions', run[w].comment_id) :
                      x.sentiment_label = run[w].rid
          /\ (Returns(w) /\ "summarize" \in run[w].failed)
             => /\ run[w].pc \in {"commit", "post"}
                /\ \/ run'[w].status = "success"
                   \/ /\ run'[w].error_type = "processing_failed"
                      /\ run[w].pc = "commit" \/ run'[w].jobs # PostJobs
                /\ run'[w].jobs = PostJobs => run'[w].status = "success"]_vars

C12_Witness ==
    \E w \in Workers :
        /\ run[w].pc = "done" /\ run[w].status = "success"
        /\ "summarize" \in run[w].failed /\ run[w].committed
        /\ RowsOf(comments_processed, run[w].comment_id) # {}
        /\ RowsOf(predictions, run[w].comment_id) # {}
        /\ RowsOf(summaries, run[w].comment_id) = {}

\* C13 as stated: whenever a run creates or overwrites a Summary row, the
\* confidence of its classification is at or above the threshold.
C13_SummaryOnlyWhenGatePasses ==
    [][summaries' # summaries
       => \E w \in Workers :
             /\ run[w].pc = "commit" /\ run'[w].pc = "post"
             /\ run[w].session.summary # {}
             /\ run[w].confidence >= confidence_threshold]_vars

\* C13 amended: whenever a run creates or overwrites a Summary row, the
\* confidence of its classification is at or above the threshold or the run
\* was started with forceReprocess; a run pending a Summary write is such a run.
C13_SummaryOnlyWhenGatePassesOrForced ==
    [][/\ summaries' # summaries
          => \E w \in Workers :
                /\ run[w].pc = "commit" /\ run'[w].pc = "post"
                /\ run[w].session.summary # {}
                /\ \/ run[w].confidence >= confidence_threshold
                   \/ run[w].force_reprocess
       /\ \A w \in Workers :
             run'[w].session.summary # {}
             => \/ run'[w].confidence >= confidence_threshold
                \/ run'[w].force_reprocess]_vars

C13_Witness ==
    \E w \in Workers :
        /\ run[w].pc = "done" /\ run[w].status = "success"
        /\ run[w].summarized /\ run[w].force_reprocess
        /\ run[w].confidence < confidence_threshold
        /\ RowsOf(summaries, run[w].comment_id) # {}

\* nothing the call numbered rid has written is in committed storage
NoneVisible(rid) ==
    /\ \A c \in Comments : comments_raw[c].pii_masked # rid
    /\ \A x \in comments_processed : x.id # rid /\ x.text_normalized # rid
    /\ \A x \in predictions : x.id # rid /\ x.sentiment_label # rid
    /\ \A x \in summaries : x.id # rid /\ x.summary_text # rid
    /\ \A x \in audits : x.id # rid

\* C14: the writes of one run become visible in one atomic commit.  Until its
\* db.commit() nothing a run has written (CommentRaw update, CommentProcessed,
\* Prediction, Audit, Summary) is in committed storage, the flush of step 4
\* included; the one step of its commit makes all of its pending writes
\* visible together; and committed storage changes in no other step.
C14_AtomicCommit ==
    [][/\ \A w \in Workers :
             /\ run[w].pc \in Running \ {"post"} => NoneVisible(run[w].rid)
             /\ (run[w].pc = "commit" /\ run'[w].pc = "post")
                => LET r == run[w]
                       s == r.session
                   IN  /\ s.raw # {} /\ s.processed # {} /\ s.prediction # {}
                       /\ comments_raw'[r.comment_id] = The(s.raw)
                       /\ \E x \in RowsOf(comments_processed', r.comment_id) :
                             /\ x.id = The(s.processed).id
                             /\ x.text_normalized = r.rid
                       /\ \E x \in RowsOf(predictions', r.comment_id) :
                             /\ x.id = The(s.prediction).id
                             /\ x.sentiment_label = r.rid
                       /\ s.audit \subseteq audits'
                       /\ s.summary # {}
                          => \E x \in RowsOf(summaries', r.comment_id) :
                                /\ x.id = The(s.summary).id
                                /\ x.summary_text = r.rid
       /\ storage' # storage
          => \E w \in Workers : run[w].pc = "commit" /\ run'[w].pc = "post"]_vars

C14_Witness ==
    \E w \in Workers :
        /\ run[w].pc = "post" /\ run[w].committed
        /\ comments_raw[run[w].comment_id].pii_masked = run[w].rid
        /\ \E x \in comments_processed : x.text_normalized = run[w].rid
        /\ \E x \in predictions : x.sentiment_label = run[w].rid
        /\ \E x \in summaries : x.summary_text = run[w].rid
        /\ \E x \in audits : x.id = run[w].rid

\* C15: the deduplication job and the keyword-extraction job are each
\* scheduled exactly once in a run that returns Success, only after its
\* commit, and never in a run that returns AlreadyProcessed or Error; a run
\* that has committed returns Success whatever happens to the jobs.
C15_JobsExactlyOnSuccess ==
    [][\A w \in Workers :
          /\ run'[w].jobs # <<>> => run'[w].committed
          /\ Returns(w)
             => /\ run'[w].status = "success" => run'[w].jobs = PostJobs
                /\ run'[w].status # "success" => run'[w].jobs = <<>>
                /\ run[w].pc = "post" => run'[w].status = "success"]_vars

\* C16: an unexpected failure in a run (a storage exception in the middle of
\* the pipeline: processing_failed after a tool was called) makes the task
\* wrapper ask for the call to be delivered again; an Error with a stage
\* name (ingest_failed, classify_failed) is never retried.
C16_UnexpectedFailureIsRetried ==
    \A w \in Workers :
        LET r == run[w]
        IN  /\ (/\ r.pc = "done" /\ r.error_type = "processing_failed"
                /\ r.calls # <<>> /\ ~r.committed)
               => r.retry
            /\ r.error_type \in {"ingest_failed", "classify_failed"} => ~r.retry

\* C17: Process on a comment id unknown to storage returns an Error that is
\* none of ingest_failed, classify_failed and processing_failed, having called
\* no tool and written nothing, and the task wrapper does not retry it.
C17_NotFoundIsDistinct ==
    \A w \in Workers :
        LET r == run[w]
        IN  (r.pc = "done" /\ r.comment_id \in UnknownIds)
            => /\ r.status = "error"
               /\ r.error_type \notin {"ingest_failed", "classify_failed",
                                       "processing_failed"}
               /\ r.calls = <<>> /\ ~r.committed /\ ~r.retry

\* the response of the finished link_comment_to_clauses call
Response == The(link.response)

\* the refs of the clauses of the draft that a mention of the text matches
MatchedRefs ==
    {link.clauses[j].ref : j \in
        {k \in 1..Len(link.clauses) :
            \E i \in 1..Len(link.text.mentions) :
                DirectMatch(link.text.mentions[i], link.clauses[k])}}

\* C18: on a draft with no clauses the linker returns an empty candidate
\* list, an empty detailed-match list and confidence 0.0 for every text, with
\* or without direct references in it, and runs the matching of no tier.
C18_EmptyClauseSet ==
    link.clauses = <<>>
    => /\ link.pc \in {"start", "done"}
       /\ link.tiers = <<>>
       /\ link.all_candidates = <<>> /\ link.final_clause_refs = <<>>
       /\ link.pc = "done"
          => link.response = {[clause_candidates |-> <<>>,
                               detailed_matches |-> <<>>, confidence |-> 0]}

C18_Witness ==
    /\ link.pc = "done" /\ link.clauses = <<>>
    /\ link.direct_mentions # <<>>
    /\ Response.confidence = 0 /\ Response.clause_candidates = <<>>

\* C19 as stated: whenever a mention of the text matches a clause ref of the
\* draft, only the direct tier is invoked, every matching clause is in the
\* returned candidates, every returned detailed match is tagged exact and the
\* returned confidence is 1.0.
C19_DirectShortCircuit ==
    (link.pc = "done" /\ MatchedRefs # {})
    => /\ link.tiers = <<"direct">>
       /\ MatchedRefs \subseteq Range(Response.clause_candidates)
       /\ \A i \in 1..Len(Response.detailed_matches) :
             Response.detailed_matches[i].match_type = "exact"
       /\ Response.confidence = Scale

\* C19 amended: whenever a mention of the text matches a clause ref of the
\* draft, only the direct tier is invoked, the returned candidates are refs of
\* matching clauses without repetition, all of them when at most
\* max_candidates distinct refs match and max_candidates of them otherwise,
\* every returned detailed match is tagged exact with score 1.0 and the
\* returned confidence is 1.0.
C19_DirectShortCircuitCapped ==
    (link.pc = "done" /\ MatchedRefs # {})
    => /\ link.tiers = <<"direct">>
       /\ Range(Response.clause_candidates) \subseteq MatchedRefs
       /\ Len(Response.clause_candidates)
              = Min(Cardinality(MatchedRefs), max_candidates)
       /\ Cardinality(Range(Response.clause_candidates))
              = Len(Response.clause_candidates)
       /\ Response.detailed_matches # <<>>
       /\ \A i \in 1..Len(Response.detailed_matches) :
             /\ Response.detailed_matches[i].match_type = "exact"
             /\ Response.detailed_matches[i].similarity_score = Scale
             /\ Response.detailed_matches[i].clause_ref \in MatchedRefs
       /\ Response.confidence = Scale

C19_Witness ==
    /\ link.pc = "done"
    /\ Cardinality(MatchedRefs) > max_candidates
    /\ Len(Response.clause_candidates) = max_candidates
    /\ Response.confidence = Scale

\* C20: the fuzzy tier runs if and only if the direct and the semantic tier
\* produced no candidate or the best score among their candidates is strictly
\* below 0.5; when it is skipped the candidates stay as they were and no
\* candidate tagged fuzzy is returned; the fuzzy tier is invoked nowhere else.
C20_FuzzyIffWeak ==
    [][/\ (link.pc = "fuzzy" /\ link'.pc = "respond")
          => LET sofar == link.all_candidates
                 strong == \E i \in 1..Len(sofar) :
                              sofar[i].similarity_score >= weak_score
             IN  /\ "fuzzy" \in Range(link'.tiers) <=> ~strong
                 /\ strong => link'.all_candidates = sofar
                 /\ \A i \in 1..Len(sofar) : sofar[i].match_type # "fuzzy"
       /\ ("fuzzy" \in Range(link'.tiers) /\ "fuzzy" \notin Range(link.tiers))
          => link.pc = "fuzzy"
       /\ (link'.pc = "done" /\ "fuzzy" \notin Range(link'.tiers))
          => \A m \in Range(The(link'.response).detailed_matches) :
                m.match_type # "fuzzy"]_vars

C20_Witness ==
    /\ link.pc = "done"
    /\ link.tiers = <<"semantic">>
    /\ Response.confidence = weak_score
    /\ \E w \in link.text.words, j \in 1..Len(link.clauses) :
          w \in link.clauses[j].text

\* the step in which the linker cuts its lists and builds its response
Responds == link.pc = "respond" /\ link'.pc = "done"

\* the refs of a list of candidates, in order
RefsOf(candidates) == [i \in 1..Len(candidates) |-> candidates[i].clause_ref]

\* a list of refs without the repetitions: each ref where it occurs first
FirstOccurrences(refs) ==
    LET at == [i \in 1..Len(refs) |-> [pos |-> i, ref |-> refs[i]]]
        first(p) == \A j \in 1..(p.pos - 1) : refs[j] # p.ref
        kept == SelectSeq(at, first)
    IN  [i \in 1..Len(kept) |-> kept[i].ref]

\* s is the list of the first n elements of t, or t if it has fewer
IsPrefixOfLength(s, t, n) ==
    /\ Len(s) = IF Len(t) <= n THEN Len(t) ELSE n
    /\ \A i \in 1..Len(s) : s[i] = t[i]

\* the greatest similarity_score of a non-empty list of candidates is m
IsBestScore(m, candidates) ==
    /\ \E i \in 1..Len(candidates) : candidates[i].similarity_score = m
    /\ \A i \in 1..Len(candidates) : candidates[i].similarity_score <= m

\* C21: the returned clause_candidates are the refs of the candidates the
\* tiers that ran have found, each ref once, in the order of the first
\* occurrence, cut to the first max_candidates (5); while the tiers run the
\* refs collected are the refs of the candidates collected.
C21_Aggregation ==
    [][/\ Responds
          => IsPrefixOfLength(The(link'.response).clause_candidates,
                              FirstOccurrences(RefsOf(link.all_candidates)),
                              max_candidates)
       /\ link'.pc \in {"semantic", "fuzzy", "respond"}
          => /\ Range(link'.final_clause_refs) = Range(RefsOf(link'.all_candidates))
             /\ Cardinality(Range(link'.final_clause_refs))
                    = Len(link'.final_clause_refs)]_vars

C21_Witness ==
    /\ link.pc = "done"
    /\ link.tiers = <<"semantic", "fuzzy">>
    /\ Len(Response.clause_candidates) = max_candidates
    /\ \E i, j \in 1..Len(Response.detailed_matches) :
          /\ i < j
          /\ Response.detailed_matches[i].clause_ref
                 = Response.detailed_matches[j].clause_ref
          /\ Response.detailed_matches[i].match_type = "semantic"
          /\ Response.detailed_matches[j].match_type = "fuzzy"

\* C22 as stated: the confidence is the greatest score of the candidates the
\* tiers that ran have produced; it is 0.0 exactly when the draft has no
\* clauses or no tier produced a candidate; it lies in [0, 1].
C22_ConfidenceIsBestScore ==
    [][/\ Responds
          => LET confidence == The(link'.response).confidence
             IN  /\ link.all_candidates # <<>>
                    => IsBestScore(confidence, link.all_candidates)
                 /\ confidence = 0 <=> link.all_candidates = <<>>
                 /\ 0 <= confidence /\ confidence <= Scale
       /\ (link.pc = "start" /\ link'.pc = "done")
          => link.clauses = <<>> /\ The(link'.response).confidence = 0]_vars

\* C22 amended: the confidence is the greatest score of the candidates the
\* tiers that ran have produced, or 1.0 if that score is above 1.0 (a cosine
\* similarity rounded above 1.0); it is 0.0 exactly when the draft has no
\* clauses or no tier produced a candidate; it lies in [0, 1].
C22_ConfidenceIsBestScoreClamped ==
    [][/\ Responds
          => LET confidence == The(link'.response).confidence
             IN  /\ link.all_candidates # <<>>
                    => \E m \in {c.similarity_score :
                                    c \in Range(link.all_candidates)} :
                          /\ IsBestScore(m, link.all_candidates)
                          /\ confidence = IF m > Scale THEN Scale ELSE m
                 /\ confidence = 0 <=> link.all_candidates = <<>>
                 /\ 0 <= confidence /\ confidence <= Scale
       /\ (link.pc = "start" /\ link'.pc = "done")
          => link.clauses = <<>> /\ The(link'.response).confidence = 0]_vars

C22_Witness ==
    /\ link.pc = "done"
    /\ Response.confidence = Scale
    /\ \E i \in 1..Len(Response.detailed_matches) :
          /\ Response.detailed_matches[i].match_type = "semantic"
          /\ Response.detailed_matches[i].similarity_score > Scale

\* C23: the returned clause candidates (stored as they are in
\* CommentProcessed.clause_guesses) are ordered most confident first: for two
\* refs of the list, some candidate of the earlier ref scores at least as high
\* as every candidate of the later ref, whichever tiers found them.
C23_MostConfidentFirst ==
    [][Responds
       => LET refs == The(link'.response).clause_candidates
          IN  \A i, j \in 1..Len(refs) :
                 i < j
                 => \A c \in Range(link.all_candidates) :
                       c.clause_ref = refs[j]
                       => \E d \in Range(link.all_candidates) :
                             /\ d.clause_ref = refs[i]
                             /\ d.similarity_score >= c.similarity_score]_vars

\* the order in which a run calls the tools
ToolOrder == <<"ingest", "clause_linker", "classify", "summarize">>

\* the pc at which a run calls a tool
CallSite(tool) ==
    CASE tool = "ingest" -> "ingest"
      [] tool = "clause_linker" -> "link"
      [] tool = "classify" -> "classify"
      [] tool = "summarize" -> "summarize"

\* C24: within one run the tools are called in the order Ingest, ClauseLink,
\* Classify, Summarize.  The calls of a run are always the first ones of this
\* order, each tool at most once; a step of the run makes at most one call,
\* the next of the order, at the place of the pipeline that is its own;
\* Classify is called with the CommentProcessed write pending; a run that has
\* returned calls no tool (the next delivery starts with no call made).
C24_ToolOrder ==
    [][\A w \in Workers :
          /\ run'[w].calls = SubSeq(ToolOrder, 1, Len(run'[w].calls))
          /\ run[w].pc \in Running /\ run'[w].calls # run[w].calls
             => /\ run'[w].calls
                       = Append(run[w].calls, ToolOrder[Len(run[w].calls) + 1])
                /\ run[w].pc = CallSite(Last(run'[w].calls))
                /\ Last(run'[w].calls) = "classify"
                   => /\ run[w].session.processed # {}
                      /\ The(run[w].session.processed).clause_guesses
                             = run[w].clause_guesses
          /\ run[w].pc \in {"idle", "done"}
             => run'[w].calls = run[w].calls \/ run'[w].calls = <<>>
          /\ (run[w].pc \in {"commit", "post"} /\ run'[w] # run[w])
             => run'[w].calls = run[w].calls]_vars

C24_Witness ==
    \E w \in Workers :
        /\ run[w].pc = "done" /\ run[w].status = "success"
        /\ run[w].calls = ToolOrder
        /\ nruns = MaxRuns

\* the same letter, in upper or lower case
SameLetter(x, y) == x = y \/ {x, y} = {"S", "s"} \/ {x, y} = {"B", "b"}

\* a occurs in b, letter case apart
OccursIn(a, b) ==
    \E at \in 1..(Len(b) + 1) :
        \A k \in 1..Len(a) :
            at + k - 1 <= Len(b) /\ SameLetter(a[k], b[at + k - 1])

\* C25: the direct-mention matching rule.  After the direct tier, every
\* candidate has score 1.0 and tag exact, and each clause of the draft is a
\* candidate once for every mention that occurs in its ref or in which its ref
\* occurs, letter case apart: a clause no mention matches is no candidate.
C25_DirectMatchRule ==
    link.pc = "semantic"
    => /\ \A c \in Range(link.all_candidates) :
             c.match_type = "exact" /\ c.similarity_score = Scale
       /\ \A clause \in Range(link.clauses) :
             Cardinality({k \in 1..Len(link.all_candidates) :
                             /\ link.all_candidates[k].clause_ref = clause.ref
                             /\ link.all_candidates[k].clause_text = clause.text})
                 = Cardinality({i \in 1..Len(link.direct_mentions) :
                                   \/ OccursIn(link.direct_mentions[i], clause.ref)
                                   \/ OccursIn(clause.ref, link.direct_mentions[i])})
                   * Cardinality({j \in 1..Len(link.clauses) :
                                     /\ link.clauses[j].ref = clause.ref
                                     /\ link.clauses[j].text = clause.text})
       /\ \A c \in Range(link.all_candidates) :
             \E clause \in Range(link.clauses) :
                 clause.ref = c.clause_ref /\ clause.text = c.clause_text

C25_Witness ==
    /\ link.pc = "semantic"
    /\ Len(link.direct_mentions) = 2
    /\ \E c \in Range(link.all_candidates) : c.clause_ref = <<"8", "b">>
    /\ \E c \in Range(link.all_candidates) : c.clause_ref = <<"8">>
    /\ \E clause \in Range(link.clauses) :
          clause.ref \notin Range(RefsOf(link.all_candidates))
    /\ Len(link.all_candidates) > Len(link.clauses)

\* no mention of the text matches a clause of the draft
NoDirectCandidate ==
    \A i \in 1..Len(link.text.mentions), clause \in Range(link.clauses) :
        /\ ~OccursIn(link.text.mentions[i], clause.ref)
        /\ ~OccursIn(clause.ref, link.text.mentions[i])

\* the clauses whose cosine similarity is above 0.3
SemanticHits ==
    {clause \in Range(link.clauses) :
        link.embedding_model /\ 10 * clause.embedding > 3 * Scale}

\* the clauses that share more than a tenth of the words with the text
FuzzyHits ==
    {clause \in Range(link.clauses) :
        10 * Cardinality(link.text.words \cap clause.text)
            > Cardinality(link.text.words \cup clause.text)}

\* candidates are the best 5 of hits, best first, each with the tag and its
\* clause's score: score(clause, s) says that s is the score of clause,
\* atMost(clause, s) that the score of clause is s or less
BestOf(candidates, hits, tag, score(_, _), atMost(_, _)) ==
    /\ Len(candidates) = Min(Cardinality(hits), 5)
    /\ \A i \in 1..Len(candidates) :
          /\ candidates[i].match_type = tag
          /\ \E clause \in hits :
                /\ clause.ref = candidates[i].clause_ref
                /\ clause.text = candidates[i].clause_text
                /\ score(clause, candidates[i].similarity_score)
    /\ \A i, j \in 1..Len(candidates) :
          i < j
          => /\ candidates[i].similarity_score >= candidates[j].similarity_score
             /\ candidates[i].clause_text # candidates[j].clause_text
    /\ \A clause \in hits :
          \/ \E i \in 1..Len(candidates) :
                candidates[i].clause_text = clause.text
          \/ \A i \in 1..Len(candidates) :
                atMost(clause, candidates[i].similarity_score)

IsCosine(clause, s) == s = clause.embedding

CosineAtMost(clause, s) == clause.embedding <= s

JaccardAtMost(clause, s) ==
    Scale * Cardinality(link.text.words \cap clause.text)
        <= s * Cardinality(link.text.words \cup clause.text)

IsJaccard(clause, s) ==
    s * Cardinality(link.text.words \cup clause.text)
        = Scale * Cardinality(link.text.words \cap clause.text)

\* C26: the cascade fallback.  With no direct candidate and no clause whose
\* cosine similarity is above 0.3 (or none with an embedding, or no model),
\* the linker tries the semantic tier and then the fuzzy tier and returns the
\* clauses whose Jaccard score is strictly above 0.1, highest first, the best
\* 5 at most, with the best score as the confidence, or nothing and 0.0 if
\* no clause clears 0.1.  The semantic tier, when it runs, finds the clauses
\* whose similarity is strictly above 0.3, highest first, the best 5 at most.
C26_CascadeFallback ==
    /\ (link.pc = "done" /\ link.clauses # <<>>
          /\ NoDirectCandidate /\ SemanticHits = {})
       => /\ link.tiers \in {<<"semantic", "fuzzy">>,
                             <<"direct", "semantic", "fuzzy">>}
          /\ BestOf(Response.detailed_matches, FuzzyHits, "fuzzy",
                    IsJaccard, JaccardAtMost)
          /\ Response.clause_candidates
                 = FirstOccurrences(RefsOf(Response.detailed_matches))
          /\ FuzzyHits = {}
             => Response = LinkResponse(<<>>, <<>>, 0)
          /\ FuzzyHits # {}
             => Response.confidence
                    = Response.detailed_matches[1].similarity_score
    /\ (link.pc = "fuzzy" /\ link.tiers # <<>> /\ Last(link.tiers) = "semantic")
       => BestOf(link.all_candidates, SemanticHits, "semantic",
                 IsCosine, CosineAtMost)

C26_Witness ==
    /\ link.pc = "done"
    /\ NoDirectCandidate /\ SemanticHits = {}
    /\ link.text.mentions # <<>>
    /\ Cardinality(FuzzyHits) > 5
    /\ Len(Response.detailed_matches) = 5
    /\ Response.detailed_matches[1].similarity_score
           > Response.detailed_matches[5].similarity_score

\* C27: in every committed state, reached through any runs, successful or
\* failed, overlapping or not, a comment has a CommentProcessed row if and
\* only if it has a Prediction row, and it has a Summary row only if it has
\* both.
C27_RowsGoTogether ==
    \A c \in Comments :
        /\ RowsOf(comments_processed, c) # {} <=> RowsOf(predictions, c) # {}
        /\ RowsOf(summaries, c) # {}
           => /\ RowsOf(comments_processed, c) # {}
              /\ RowsOf(predictions, c) # {}

C27_Witness ==
    \E w, v \in Workers :
        /\ run[w].pc = "done" /\ run[w].error_type = "classify_failed"
        /\ run[w].existing_processed = 0
        /\ run[v].pc = "done" /\ run[v].status = "success"
        /\ run[v].summarized
        /\ RowsOf(comments_processed, run[w].comment_id) # {}
        /\ RowsOf(predictions, run[w].comment_id) # {}
        /\ RowsOf(summaries, run[w].comment_id) # {}

\* C28: summary freshness.  After a run that returns Success, a Summary row of
\* the comment was written by that run (a summary is tagged with the number
\* of the call whose Summarize call returned it; nruns is the number of the
\* last call), whether its Summarize call succeeded, failed or was skipped.
C28_SummaryFresh ==
    \A w \in Workers :
        (run[w].pc = "done" /\ run[w].status = "success")
        => \A x \in RowsOf(summaries, run[w].comment_id) : x.summary_text = nruns

\* C29: whenever the linker returns a non-empty detailed_matches list, the
\* returned confidence is the similarity_score of one of its candidates.
C29_ConfidenceAmongReturned ==
    (link.pc = "done" /\ Response.detailed_matches # <<>>)
    => \E c \in Range(Response.detailed_matches) :
          c.similarity_score = Response.confidence

\* C30: every clause_ref of the returned detailed_matches is one of the
\* returned clause_candidates, also when a clause is matched several times
\* and both lists are cut to 5 entries.
C30_ListsConsistent ==
    link.pc = "done"
    => \A c \in Range(Response.detailed_matches) :
          c.clause_ref \in Range(Response.clause_candidates)

C30_Witness ==
    /\ link.pc = "done"
    /\ Len(Response.detailed_matches) = 5
    /\ Len(Response.clause_candidates) = 5
    /\ Cardinality(Range(RefsOf(Response.detailed_matches))) < 5
    /\ \E ref \in Range(Response.clause_candidates) :
          ref \notin Range(RefsOf(Response.detailed_matches))
====
